---- MODULE Spec2Model ----
(***************************************************************************)
(* Model of src/src/lib.rs (crate trapez_integrate): trapezoidal           *)
(* integration of sampled data, trapezoid_f64 / trapezoid_f32 over (y, x)  *)
(* and trapezoid_even_f32 / trapezoid_even_f64 over (y, dx).               *)
(*                                                                         *)
(* Floating-point values.  A value is NaN or a finite number               *)
(*      (c + e * 2^-40) / 4        with small integers c and e,            *)
(* written Fin(c, e).  The quarter unit makes the factor 0.5 and the       *)
(* half-integers it produces representable; the 2^-40 component            *)
(* (about 9.09e-13) is what lets an abscissa deviate from even spacing by  *)
(* less or more than the uniformity tolerances 1e-12 and 1e-6.  Every      *)
(* value the model builds has fewer than 53 significant bits, so each f64  *)
(* operation on it is exact and the model computes what the code computes. *)
(* Values of y carry no 2^-40 component, so no product ever has two        *)
(* operands with one (its 2^-80 term would need rounding).                 *)
(***************************************************************************)
EXTENDS Integers, Sequences, FiniteSets

VARIABLES op, y, x, dx, result, pc

vars == <<op, y, x, dx, result, pc>>

\* ---------------------------------------------------------------- bounds
\* Longest slice passed to an entry point.
MaxLen == 3

\* ---------------------------------------------------------------- values
Fin(c, e) == [k |-> "fin", c |-> c, e |-> e]

\* T::nan()
NaN == [k |-> "nan", c |-> 0, e |-> 0]

\* The outcome of a call that panics (index or slice out of range).
Panic == [k |-> "panic", c |-> 0, e |-> 0]

\* No call has returned yet.
Pending == [k |-> "pending", c |-> 0, e |-> 0]

IsNaN(a) == a.k = "nan"

\* T::zero()
Zero == Fin(0, 0)

\* 1.0.as_()
One == Fin(4, 0)

\* 0.5f64.as_()
Half == Fin(2, 0)

\* The integer i as a sample.
IntVal(i) == Fin(4 * i, 0)

\* a + b
Add(a, b) == IF IsNaN(a) \/ IsNaN(b) THEN NaN ELSE Fin(a.c + b.c, a.e + b.e)

\* a - b
Sub(a, b) == IF IsNaN(a) \/ IsNaN(b) THEN NaN ELSE Fin(a.c - b.c, a.e - b.e)

\* -a
Neg(a) == IF IsNaN(a) THEN NaN ELSE Fin(0 - a.c, 0 - a.e)

\* a * b; exact on the model's values (the products are multiples of 1/4 and
\* at most one operand has a 2^-40 component).
Mul(a, b) ==
    IF IsNaN(a) \/ IsNaN(b) THEN NaN
    ELSE Fin((a.c * b.c) \div 4, (a.c * b.e + a.e * b.c) \div 4)

\* a > b (false when either is NaN)
Gt(a, b) ==
    /\ ~IsNaN(a)
    /\ ~IsNaN(b)
    /\ \/ a.c > b.c
       \/ a.c = b.c /\ a.e > b.e

\* a <= b (false when either is NaN)
Le(a, b) ==
    /\ ~IsNaN(a)
    /\ ~IsNaN(b)
    /\ ~Gt(a, b)

\* a.abs()
abs(a) == IF IsNaN(a) THEN NaN ELSE IF Gt(Zero, a) THEN Neg(a) ELSE a

\* a.max(b): Float::max ignores a NaN operand
max(a, b) ==
    IF IsNaN(a) THEN b
    ELSE IF IsNaN(b) THEN a
    ELSE IF Gt(b, a) THEN b ELSE a

\* mla::fmla(a, b, c) = a * b + c with one rounding; exact here.
fmla(a, b, c) == Add(Mul(a, b), c)

\* ------------------------------------------------------------ tolerance
\* T::TOLERANCE in units of 2^-40, as num / den:
\*   f64: 1e-12 = 1.099512 * 2^-40,  f32: 1e-6 = 1099512 * 2^-40
\* (both to a relative 4e-7).
TOLERANCE(T) ==
    IF T = "f32" THEN [num |-> 1099512, den |-> 1]
    ELSE [num |-> 1099512, den |-> 1000000]

\* tol = (h0.abs().max(1.0.as_())) * T::TOLERANCE, kept as the pair of its
\* factors since the product is not a multiple of 2^-40 / 4.
Tol(T, h0) == [scale |-> max(abs(h0), One), unit |-> TOLERANCE(T)]

\* d > tol for d = (..).abs(): false for NaN; a d of 1/4 or more exceeds
\* every tolerance of the model (scale * 1e-6 < 1/4); otherwise
\*   d.e * 2^-40 / 4  >  (scale.c / 4) * (num / den) * 2^-40.
GtTol(d, tol) ==
    /\ ~IsNaN(d)
    /\ \/ d.c > 0
       \/ d.c = 0 /\ d.e * tol.unit.den > tol.scale.c * tol.unit.num

\* ------------------------------------------------------------ trapezoid
Min(a, b) == IF a < b THEN a ELSE b

\* "for x in q.windows(2)" over q = &x[1..], from the window that starts at
\* x[i] (1-based): TRUE when no window has (hi - h0).abs() > tol; stops at the
\* first that has.
RECURSIVE scan_uniform(_, _, _, _)
scan_uniform(xs, i, h0, tol) ==
    IF i + 1 > Len(xs) THEN TRUE
    ELSE IF GtTol(abs(Sub(Sub(xs[i + 1], xs[i]), h0)), tol) THEN FALSE
    ELSE scan_uniform(xs, i + 1, h0, tol)

\* The flag "uniform" after the scan, for x of length >= 2.
is_uniform(T, xs) ==
    LET h0 == Sub(xs[2], xs[1])
    IN  scan_uniform(xs, 2, h0, Tol(T, h0))

\* "for v in &ys[lo-1 .. hi]" (1-based lo..hi): acc += *v, in index order.
RECURSIVE sum_range(_, _, _, _)
sum_range(ys, lo, hi, acc) ==
    IF lo > hi THEN acc
    ELSE sum_range(ys, lo + 1, hi, Add(acc, ys[lo]))

\* uniform_rule with the end values not halved.
uniform_rule_whole_ends(ys, h0) ==
    LET n == Len(ys)
        interior_sum == sum_range(ys, 2, n - 1, Zero)
    IN  Mul(h0, fmla(Add(ys[1], ys[n]), One, interior_sum))

\* The uniform branch: h0 * fmla(y[0] + y[n - 1], 0.5, interior_sum).
uniform_rule(ys, h0) ==
    LET n == Len(ys)
        interior_sum == sum_range(ys, 2, n - 1, Zero)
    IN  Mul(h0, fmla(Add(ys[1], ys[n]), Half, interior_sum))

\* general_loop with dx not halved.
RECURSIVE general_loop_no_half(_, _, _, _)
general_loop_no_half(ys, xs, k, integral) ==
    IF k > Min(Len(ys), Len(xs)) - 1 THEN integral
    ELSE general_loop_no_half(ys, xs, k + 1,
             fmla(Sub(xs[k + 1], xs[k]), Add(ys[k], ys[k + 1]), integral))

\* general_loop with dx replaced by its magnitude.
RECURSIVE general_loop_abs_dx(_, _, _, _)
general_loop_abs_dx(ys, xs, k, integral) ==
    IF k > Min(Len(ys), Len(xs)) - 1 THEN integral
    ELSE general_loop_abs_dx(ys, xs, k + 1,
             fmla(Mul(abs(Sub(xs[k + 1], xs[k])), Half),
                  Add(ys[k], ys[k + 1]), integral))

\* The general branch, from the k-th pair of y.windows(2).zip(x.windows(2)):
\* integral = fmla(dx * 0.5, y[0] + y[1], integral).
RECURSIVE general_loop(_, _, _, _)
general_loop(ys, xs, k, integral) ==
    IF k > Min(Len(ys), Len(xs)) - 1 THEN integral
    ELSE general_loop(ys, xs, k + 1,
             fmla(Mul(Sub(xs[k + 1], xs[k]), Half),
                  Add(ys[k], ys[k + 1]), integral))

\* general_rule with the first pair of windows skipped.
general_rule_skip_first(ys, xs) == general_loop(ys, xs, 2, Zero)

general_rule(ys, xs) == general_loop(ys, xs, 1, Zero)

\* trapezoid without the test x.len() != n.
trapezoid_no_len_check(T, ys, xs) ==
    LET n == Len(ys) IN
    IF n < 2 THEN NaN
    ELSE IF Len(xs) < 2 THEN Panic
    ELSE IF is_uniform(T, xs)
         THEN IF n < 2 THEN Panic
              ELSE uniform_rule(ys, Sub(xs[2], xs[1]))
         ELSE general_rule(ys, xs)

\* fn trapezoid<T: TrapezSample>(y: &[T], x: &[T]) -> T
trapezoid(T, ys, xs) ==
    LET n == Len(ys) IN
    IF n < 2 \/ Len(xs) # n THEN NaN
    ELSE IF Len(xs) < 2 THEN Panic                \* x[1], x[0]
    ELSE IF is_uniform(T, xs)
         THEN IF n < 2 THEN Panic                 \* &y[1..(n - 1)], y[n - 1]
              ELSE uniform_rule(ys, Sub(xs[2], xs[1]))
         ELSE general_rule(ys, xs)

\* pub fn trapezoid_f64(y: &[f64], x: &[f64]) -> f64
trapezoid_f64(ys, xs) == trapezoid("f64", ys, xs)

\* trapezoid_f32 instantiated at T = f32, with the 32-bit TOLERANCE.
trapezoid_f32_narrow(ys, xs) == trapezoid("f32", ys, xs)

\* pub fn trapezoid_f32(y: &[f64], x: &[f64]) -> f64: the slices are f64, so
\* T = f64.
trapezoid_f32(ys, xs) == trapezoid("f64", ys, xs)

\* trapezoid_even rejecting only dx < 0.
trapezoid_even_strict_dx(T, ys, d) ==
    LET n == Len(ys) IN
    IF n < 2 \/ Gt(Zero, d) THEN NaN
    ELSE IF n < 2 THEN Panic
    ELSE Mul(d, fmla(Half, Add(ys[1], ys[n]), sum_range(ys, 2, n - 1, Zero)))

\* trapezoid_even without the test n < 2.
trapezoid_even_no_len_check(T, ys, d) ==
    LET n == Len(ys) IN
    IF Le(d, Zero) THEN NaN
    ELSE IF n < 2 THEN Panic
    ELSE Mul(d, fmla(Half, Add(ys[1], ys[n]), sum_range(ys, 2, n - 1, Zero)))

\* trapezoid_even with the interior sum running to the last value.
trapezoid_even_sum_to_end(T, ys, d) ==
    LET n == Len(ys) IN
    IF n < 2 \/ Le(d, Zero) THEN NaN
    ELSE IF n < 2 THEN Panic
    ELSE Mul(d, fmla(Half, Add(ys[1], ys[n]), sum_range(ys, 2, n, Zero)))

\* fn trapezoid_even<T: TrapezSample>(y: &[T], dx: T) -> T
trapezoid_even(T, ys, d) ==
    LET n == Len(ys) IN
    IF n < 2 \/ Le(d, Zero) THEN NaN
    ELSE IF n < 2 THEN Panic                      \* &y[1..n - 1], y[n - 1]
    ELSE Mul(d, fmla(Half, Add(ys[1], ys[n]), sum_range(ys, 2, n - 1, Zero)))

\* pub fn trapezoid_even_f32(y: &[f32], dx: f32) -> f32
trapezoid_even_f32(ys, d) == trapezoid_even("f32", ys, d)

\* pub fn trapezoid_even_f64(y: &[f64], dx: f64) -> f64
trapezoid_even_f64(ys, d) == trapezoid_even("f64", ys, d)

\* --------------------------------------------------------------- inputs
\* Function values: small integers.
YVals == {IntVal(0), IntVal(1), IntVal(2)}

\* First abscissa.
X0Vals == {IntVal(0), IntVal(1)}

\* Steps between consecutive abscissas: -1, 1, 1 + 2^-40, 1 + 2 * 2^-40, 2, NaN.
HVals == {IntVal(0 - 1), IntVal(1), Fin(4, 4), Fin(4, 8), IntVal(2), NaN}

\* Spacings for the even entry points: -1, 0, 1/2, 1, 2, NaN.
DxVals == {IntVal(0 - 1), Zero, Half, One, IntVal(2), NaN}

RECURSIVE Abscissa(_, _, _)
Abscissa(x0, hs, i) == IF i = 1 THEN x0 ELSE Add(Abscissa(x0, hs, i - 1), hs[i - 1])

Abscissas(x0, hs) == [i \in 1..(Len(hs) + 1) |-> Abscissa(x0, hs, i)]

Ys(n) == [1..n -> YVals]

Xs(n) ==
    IF n = 0 THEN {<< >>}
    ELSE {Abscissas(x0, hs) : x0 \in X0Vals, hs \in [1..(n - 1) -> HVals]}

\* tests::test_trapezoid
TestY == <<IntVal(5), IntVal(6), IntVal(1), IntVal(4), IntVal(6), IntVal(2)>>
TestX == <<IntVal(1), IntVal(2), IntVal(4), IntVal(6), IntVal(7), IntVal(9)>>

TrapezoidOps == {"trapezoid_f64", "trapezoid_f32"}
EvenOps == {"trapezoid_even_f32", "trapezoid_even_f64"}

\* ---------------------------------------------------------- state machine
\* A caller is about to make one call: op names the entry point, (y, x) or
\* (y, dx) are its arguments (x is empty for the even entry points, dx is NaN
\* for the others: the argument the entry point does not take).
Init ==
    /\ pc = "call"
    /\ result = Pending
    /\ \/ /\ op \in TrapezoidOps
          /\ \E n \in 0..MaxLen, m \in 0..MaxLen :
                /\ y \in Ys(n)
                /\ x \in Xs(m)
          /\ dx = NaN
       \/ /\ op = "trapezoid_f64"
          /\ y = TestY
          /\ x = TestX
          /\ dx = NaN
       \/ /\ op \in EvenOps
          /\ \E n \in 0..MaxLen : y \in Ys(n)
          /\ x = << >>
          /\ dx \in DxVals

Call_trapezoid_f64 ==
    /\ pc = "call"
    /\ op = "trapezoid_f64"
    /\ result' = trapezoid_f64(y, x)
    /\ pc' = "done"
    /\ UNCHANGED <<op, y, x, dx>>

Call_trapezoid_f32 ==
    /\ pc = "call"
    /\ op = "trapezoid_f32"
    /\ result' = trapezoid_f32(y, x)
    /\ pc' = "done"
    /\ UNCHANGED <<op, y, x, dx>>

Call_trapezoid_even_f32 ==
    /\ pc = "call"
    /\ op = "trapezoid_even_f32"
    /\ result' = trapezoid_even_f32(y, dx)
    /\ pc' = "done"
    /\ UNCHANGED <<op, y, x, dx>>

Call_trapezoid_even_f64 ==
    /\ pc = "call"
    /\ op = "trapezoid_even_f64"
    /\ result' = trapezoid_even_f64(y, dx)
    /\ pc' = "done"
    /\ UNCHANGED <<op, y, x, dx>>

Next ==
    \/ Call_trapezoid_f64
    \/ Call_trapezoid_f32
    \/ Call_trapezoid_even_f32
    \/ Call_trapezoid_even_f64

Spec == Init /\ [][Next]_vars

TypeOK ==
    /\ pc \in {"call", "done"}
    /\ op \in TrapezoidOps \cup EvenOps
    /\ result.k \in {"fin", "nan", "panic", "pending"}

\* ------------------------------------------------------ claim vocabulary
Returned(o) == pc = "done" /\ op = o

\* y and x are slices of the same length n >= 2.
ValidPair == Len(y) >= 2 /\ Len(x) = Len(y)

\* h_i = x[i+1] - x[i] for the 0-based interval i (x[i + 2] - x[i + 1] here).
Width(i) == Sub(x[i + 2], x[i + 1])

\* |h_i - h0| <= tol, as a floating-point comparison (false for NaN).
WithinTol(T, i) ==
    LET d == abs(Sub(Width(i), Width(0)))
    IN  ~IsNaN(d) /\ ~GtTol(d, Tol(T, Width(0)))

\* |h_i - h0| > tol
BeyondTol(T, i) == GtTol(abs(Sub(Width(i), Width(0))), Tol(T, Width(0)))

\* x[i+1] - x[i] = x[1] - x[0] for every interval.
EvenlySpaced ==
    /\ ~IsNaN(Width(0))
    /\ \A i \in 0..(Len(x) - 2) : Width(i) = Width(0)

\* No abscissa is NaN.
FiniteX == \A i \in 1..Len(x) : ~IsNaN(x[i])

\* The sum of ys[lo..hi] (1-based), taken from the top.
RECURSIVE SumOf(_, _, _)
SumOf(ys, lo, hi) == IF hi < lo THEN Zero ELSE Add(SumOf(ys, lo, hi - 1), ys[hi])

\* The sum over the 0-based intervals 0..k-1 of (x[i+1]-x[i]) * 0.5 * (y[i]+y[i+1]).
RECURSIVE SegmentSum(_)
SegmentSum(k) ==
    IF k = 0 THEN Zero
    ELSE Add(SegmentSum(k - 1),
             Mul(Mul(Width(k - 1), Half), Add(y[k], y[k + 1])))

\* h * (0.5 * (y[0] + y[n-1]) + sum of y[1..n-2])
UniformFormula(h) ==
    Mul(h, Add(Mul(Half, Add(y[1], y[Len(y)])), SumOf(y, 2, Len(y) - 1)))

Reverse(s) == [i \in 1..Len(s) |-> s[Len(s) + 1 - i]]

\* y[i] = a * x[i] + b at every sample.
LinearIn(a, b) ==
    \A i \in 1..Len(y) : y[i] = Add(Mul(IntVal(a), x[i]), IntVal(b))

\* a * (x[n-1]^2 - x[0]^2) / 2 + b * (x[n-1] - x[0])
LinearIntegral(a, b) ==
    LET x0 == x[1]
        xn == x[Len(x)]
    IN  Add(Mul(Mul(IntVal(a), Sub(Mul(xn, xn), Mul(x0, x0))), Half),
            Mul(IntVal(b), Sub(xn, x0)))

\* Slopes and intercepts of the linear integrands the inputs can sample.
Slopes == {0 - 2, 0 - 1, 0, 1, 2}
Intercepts == {0 - 4, 0 - 3, 0 - 2, 0 - 1, 0, 1, 2, 3, 4}

\* The claim of C4 for the call that returned.
LinearExact ==
    /\ \A a \in Slopes, b \in Intercepts :
          LinearIn(a, b) => result = LinearIntegral(a, b)
    /\ \A c \in YVals :
          (\A i \in 1..Len(y) : y[i] = c)
              => result = Mul(c, Sub(x[Len(x)], x[1]))

\* --------------------------------------------------------------- claims

\* C1: trapezoid_f64 and trapezoid_f32 return NaN when y has fewer than two
\* values or x and y differ in length.
C1_NaNOnShortOrMismatched ==
    (pc = "done" /\ op \in TrapezoidOps /\ (Len(y) < 2 \/ Len(x) # Len(y)))
        => result = NaN

C1_Witness ==
    /\ Returned("trapezoid_f32")
    /\ Len(y) = 3
    /\ Len(x) = 2
    /\ result = NaN

\* C2: trapezoid_even_f32 and trapezoid_even_f64 return NaN when y has fewer
\* than two values or dx <= 0.
C2_NaNOnShortOrNonPositiveDx ==
    (pc = "done" /\ op \in EvenOps /\ (Len(y) < 2 \/ Le(dx, Zero)))
        => result = NaN

C2_Witness ==
    /\ Returned("trapezoid_even_f64")
    /\ Len(y) = 3
    /\ dx = Zero
    /\ result = NaN

\* C3 as stated: for exactly evenly spaced x with step dx = x[1] - x[0],
\* trapezoid_f64(y, x) and trapezoid_even_f64(y, dx) return the same value.
C3_EvenAgreesAnyStep ==
    (Returned("trapezoid_f64") /\ ValidPair /\ EvenlySpaced)
        => result = trapezoid_even_f64(y, Width(0))

\* C3 amended: for exactly evenly spaced x with step dx = x[1] - x[0] > 0,
\* trapezoid_f64(y, x) and trapezoid_even_f64(y, dx) return the same value.
C3_EvenAgreesPositiveStep ==
    (Returned("trapezoid_f64") /\ ValidPair /\ EvenlySpaced /\ Gt(Width(0), Zero))
        => result = trapezoid_even_f64(y, Width(0))

C3_Witness ==
    /\ Returned("trapezoid_f64")
    /\ y = <<IntVal(1), IntVal(2), IntVal(0)>>
    /\ x = <<IntVal(1), IntVal(3), IntVal(5)>>
    /\ result = IntVal(5)
    /\ result = trapezoid_even_f64(y, IntVal(2))

\* C4 as stated: for y[i] = a * x[i] + b over any spacing, trapezoid_f64
\* returns the exact integral a*(x[n-1]^2 - x[0]^2)/2 + b*(x[n-1] - x[0]),
\* and c*(x[n-1] - x[0]) for a constant y[i] = c.  Stated for NaN-free x, where
\* it already fails.
C4_LinearExactAnySpacing ==
    (Returned("trapezoid_f64") /\ ValidPair /\ FiniteX) => LinearExact

\* C4 amended: the same, when x is exactly evenly spaced or some interval
\* differs from the first by more than tol (the general branch is taken).
C4_LinearExactOffTolerance ==
    (/\ Returned("trapezoid_f64")
     /\ ValidPair
     /\ \/ EvenlySpaced
        \/ \E i \in 1..(Len(x) - 2) : BeyondTol("f64", i))
        => LinearExact

C4_Witness ==
    /\ Returned("trapezoid_f64")
    /\ x = <<IntVal(0), IntVal(2), IntVal(1)>>
    /\ y = <<IntVal(2), IntVal(0), IntVal(1)>>
    /\ LinearIn(0 - 1, 2)
    /\ result = Fin(6, 0)

\* C5: no call panics; every call returns a value, and mismatched lengths,
\* fewer than two samples and a non-positive spacing are answered with NaN.
C5_NoPanicNaNOnInvalid ==
    pc = "done" =>
        /\ result # Panic
        /\ result # Pending
        /\ (op \in TrapezoidOps /\ (Len(y) < 2 \/ Len(x) # Len(y))) => result = NaN
        /\ (op \in EvenOps /\ (Len(y) < 2 \/ Le(dx, Zero))) => result = NaN

C5_Witness ==
    /\ Returned("trapezoid_even_f32")
    /\ Len(y) = 0
    /\ dx = One
    /\ result = NaN

\* C6: when some interval i in 1..n-2 has |h_i - h0| > tol, trapezoid_f64
\* returns the sum over i in 0..n-2 of (x[i+1] - x[i]) * 0.5 * (y[i] + y[i+1]).
C6_GeneralIsSegmentSum ==
    (/\ Returned("trapezoid_f64")
     /\ ValidPair
     /\ \E i \in 1..(Len(x) - 2) : BeyondTol("f64", i))
        => result = SegmentSum(Len(y) - 1)

\* tests::test_trapezoid: 30.5
C6_Witness ==
    /\ Returned("trapezoid_f64")
    /\ y = TestY
    /\ x = TestX
    /\ BeyondTol("f64", 1)
    /\ result = Fin(122, 0)

\* C7: for n >= 2 and dx > 0, trapezoid_even returns
\* dx * (0.5 * (y[0] + y[n-1]) + sum of y[1..n-2]), the sum empty when n = 2.
C7_EvenFormula ==
    (pc = "done" /\ op \in EvenOps /\ Len(y) >= 2 /\ Gt(dx, Zero))
        => result = UniformFormula(dx)

C7_Witness ==
    /\ Returned("trapezoid_even_f32")
    /\ y = <<IntVal(1), IntVal(2), IntVal(2)>>
    /\ dx = Half
    /\ result = Fin(7, 0)

\* C8: trapezoid_f32 returns what trapezoid_f64 returns and decides
\* uniformity with the 64-bit tolerance 1e-12: it takes the uniform branch
\* exactly when no interval is more than the 64-bit tol from the first.
C8_F32IsF64 ==
    Returned("trapezoid_f32") =>
        /\ result = trapezoid_f64(y, x)
        /\ ValidPair =>
              IF \E i \in 1..(Len(x) - 2) : BeyondTol("f64", i)
              THEN result = SegmentSum(Len(y) - 1)
              ELSE result = UniformFormula(Width(0))

\* A deviation of 2 * 2^-40 (1.8e-12): beyond 1e-12, within 1e-6.
C8_Witness ==
    /\ Returned("trapezoid_f32")
    /\ y = <<IntVal(0), IntVal(0), IntVal(1)>>
    /\ x = <<IntVal(0), IntVal(1), Fin(8, 8)>>
    /\ BeyondTol("f64", 1)
    /\ ~BeyondTol("f32", 1)
    /\ result = Fin(2, 4)
    /\ result # UniformFormula(Width(0))

\* C9: trapezoid takes the uniform branch, returning
\* h0 * (0.5 * (y[0] + y[n-1]) + sum of y[1..n-2]), if and only if every
\* interval i in 1..n-2 has |h_i - h0| <= tol; otherwise the general branch.
C9_UniformIffAllWithinTol ==
    (pc = "done" /\ op \in TrapezoidOps /\ ValidPair) =>
        IF \A i \in 1..(Len(x) - 2) : WithinTol("f64", i)
        THEN result = UniformFormula(Width(0))
        ELSE result = SegmentSum(Len(y) - 1)

\* C10 as stated: trapezoid_f64(reverse(y), reverse(x)) = -trapezoid_f64(y, x).
\* Stated for NaN-free x, where it already fails.
C10_ReverseNegates ==
    (Returned("trapezoid_f64") /\ ValidPair /\ FiniteX)
        => trapezoid_f64(Reverse(y), Reverse(x)) = Neg(result)

\* C10 amended: the same, when x is exactly evenly spaced or both calls take
\* the general branch.
C10_ReverseNegatesOffTolerance ==
    (/\ Returned("trapezoid_f64")
     /\ ValidPair
     /\ \/ EvenlySpaced
        \/ /\ ~is_uniform("f64", x)
           /\ ~is_uniform("f64", Reverse(x)))
        => trapezoid_f64(Reverse(y), Reverse(x)) = Neg(result)

C10_Witness ==
    /\ Returned("trapezoid_f64")
    /\ y = <<IntVal(0), IntVal(1), IntVal(2)>>
    /\ x = <<IntVal(0), IntVal(2), IntVal(3)>>
    /\ ~is_uniform("f64", x)
    /\ ~is_uniform("f64", Reverse(x))
    /\ result = Fin(10, 0)
    /\ trapezoid_f64(Reverse(y), Reverse(x)) = Fin(0 - 10, 0)
====
